---------------------------- MODULE Spec2Model ----------------------------
(***************************************************************************)
(* cargo-pgx `new` command (src/cargo-pgx/src/command/new.rs).             *)
(*                                                                         *)
(* A name is a sequence of characters (one-character strings).  A path is  *)
(* a sequence of components, a component is a sequence of characters.  A   *)
(* filesystem is a function from absolute paths to nodes.  Every system    *)
(* call of the command is one step of the invoking process, and every      *)
(* system call may fail.                                                   *)
(***************************************************************************)
EXTENDS Naturals, Sequences, FiniteSets, TLC

VARIABLES
    fs,        \* fs[w]: the filesystem w, a function from paths to nodes
    fs0,       \* fs0[w]: the filesystem w before the first invocation
    pc,        \* pc[p]: the system call invocation p is about to make
    name,      \* name[p], bgworker[p]: the arguments of invocation p
    bgworker,
    path,      \* path[p]: the destination of invocation p
    result,    \* result[p]: what execute returned
    err,       \* err[p]: the system call whose error was raised
    cause,     \* cause[p]: "conflict" (an entry in the way) or "io"
    start,     \* start[p]: the filesystem when invocation p began
    rerun,     \* rerun[p]: p repeats, with the same arguments, the
               \* invocation that has just succeeded
    calls,     \* calls[p]: invocations made so far
    budget,    \* budget[p]: invocations allowed
    world,     \* world[p]: the filesystem p works on
    vname,     \* the name given to the validator on its own
    verdict    \* and what the validator said

vars == <<fs, fs0, pc, name, bgworker, path, result, err, cause, start, rerun,
          calls, budget, world, vname, verdict>>

(* ------------------------------ bounds -------------------------------- *)

\* longest name handed to the validator on its own
MaxLen == 3
\* number of successive invocations of `cargo pgx new` by one user
MaxCalls == 2

Procs == {1, 2}
Worlds == {1, 2}

\* one character of every class the validator tells apart:
\* lowercase letter, digit, underscore, uppercase letter, space, punctuation
Chars == {"a", "7", "_", "A", " ", "-"}

Names == UNION {[1..n -> Chars] : n \in 0..MaxLen}

\* the names the invocations are run with: the empty name, two names of
\* [a-z0-9_] and a name with a punctuation character
ExecNames == {<<>>, <<"a">>, <<"_", "7">>, <<"a", "-">>}

(* --------------------------- the validator ---------------------------- *)

\* char::is_alphanumeric
is_alphanumeric(c) == c \in {"a", "7", "A"}

\* char::is_lowercase
is_lowercase(c) == c \in {"a"}

\* a lowercase-only test that forgets the digits
RejectedNoDigit(c) == ~is_lowercase(c) /\ c # "_"

\* the condition of the `if` in the loop
Rejected(c) == ~is_alphanumeric(c) /\ c # "_" /\ ~is_lowercase(c)

RECURSIVE validate_extension_name(_)
validate_extension_name(extname) ==
    IF extname = <<>> THEN "Ok"
    ELSE IF Rejected(Head(extname)) THEN "Err"
    ELSE validate_extension_name(Tail(extname))

(* ------------------------------- paths -------------------------------- *)

\* the current working directory of every invocation
CWD == << <<"w">> >>

RECURSIVE Components(_, _)
Components(s, cur) ==
    IF s = <<>> THEN (IF cur = <<>> THEN <<>> ELSE <<cur>>)
    ELSE IF Head(s) = "/"
         THEN (IF cur = <<>> THEN <<>> ELSE <<cur>>) \o Components(Tail(s), <<>>)
         ELSE Components(Tail(s), Append(cur, Head(s)))

\* PathBuf::from_str, resolved by the operating system: a string that
\* starts with "/" is absolute, any other is relative to CWD
PathFromStr(s) ==
    IF s # <<>> /\ Head(s) = "/" THEN Components(s, <<>>)
    ELSE CWD \o Components(s, <<>>)

\* the destination of execute: format!("{}/", name)
DestPath(n) == PathFromStr(n \o <<"/">>)

Push(q, comp) == Append(q, comp)

Prefix(q, i) == SubSeq(q, 1, i)

Parent(q) == Prefix(q, Len(q) - 1)

IsPrefix(r, q) == Len(r) <= Len(q) /\ Prefix(q, Len(r)) = r

SrcDir == <<"s", "r", "c">>
CargoDir == <<".", "c", "a", "r", "g", "o">>
SqlDir == <<"s", "q", "l">>
CargoTomlName == <<"C", "a", "r", "g", "o", ".", "t", "o", "m", "l">>
ConfigName == <<"c", "o", "n", "f", "i", "g">>
LibRsName == <<"l", "i", "b", ".", "r", "s">>
GitIgnoreName == <<".", "g", "i", "t", "i", "g", "n", "o", "r", "e">>

\* format!("{}.control", name)
ControlName(n) == n \o <<".", "c", "o", "n", "t", "r", "o", "l">>

(* ----------------------------- templates ------------------------------ *)

\* The template files are not part of the sources at hand.  format! does
\* not compile with an unused named argument, hence the four formatted
\* templates contain the placeholder.
TemplateControl == <<"control:", "{name}", ";">>
TemplateCargoToml == <<"cargo_toml:", "{name}", ";">>
TemplateCargoConfig == <<"cargo_config">>
TemplateLibRs == <<"lib_rs:", "{name}", ";">>
TemplateBgworkerLibRs == <<"bgworker_lib_rs:", "{name}", ";">>
TemplateGitignore == <<"gitignore">>

\* format!(template, name = name)
RECURSIVE Format(_, _)
Format(t, n) ==
    IF t = <<>> THEN <<>>
    ELSE (IF Head(t) = "{name}" THEN n ELSE <<Head(t)>>) \o Format(Tail(t), n)

(* ---------------------------- filesystem ------------------------------ *)

Dir == [kind |-> "dir", bytes |-> <<>>]
File(b) == [kind |-> "file", bytes |-> b]

Subtree(f, r) == [q \in {x \in DOMAIN f : IsPrefix(r, x)} |-> f[q]]

\* the entries strictly below r
Below(f, r) == {q \in DOMAIN f : IsPrefix(r, q) /\ q # r}

\* length of the longest prefix of q that exists
Depth(f, q) ==
    CHOOSE i \in 0..Len(q) :
        /\ Prefix(q, i) \in DOMAIN f
        /\ \A j \in (i+1)..Len(q) : Prefix(q, j) \notin DOMAIN f

\* mkdir of the missing prefixes of q, top down, up to length k
MkdirUpTo(f, q, k) ==
    LET new == {Prefix(q, i) : i \in (Depth(f, q)+1)..k}
    IN  [x \in DOMAIN f \cup new |-> IF x \in DOMAIN f THEN f[x] ELSE Dir]

\* std::fs::create_dir_all succeeds unless a file is in the way
DirAllOk(f, q) == f[Prefix(q, Depth(f, q))].kind = "dir"

create_dir_all(f, q) == MkdirUpTo(f, q, Len(q))

\* File::create with create_new semantics
FileCreateOkNew(f, q) ==
    /\ Parent(q) \in DOMAIN f
    /\ f[Parent(q)].kind = "dir"
    /\ q \notin DOMAIN f

\* std::fs::File::create: creates or truncates
FileCreateOk(f, q) ==
    /\ Parent(q) \in DOMAIN f
    /\ f[Parent(q)].kind = "dir"
    /\ (q \in DOMAIN f => f[q].kind = "file")

File_create(f, q) ==
    [x \in DOMAIN f \cup {q} |-> IF x = q THEN File(<<>>) ELSE f[x]]

\* the first k elements of b reach the open file q
write_all(f, q, b, k) ==
    [x \in DOMAIN f \cup {q} |-> IF x = q THEN File(Prefix(b, k)) ELSE f[x]]


(* ------------------------- create_crate_template ----------------------- *)

\* the system calls of create_crate_template, in program order
PcOrder == <<"mkdir_src", "mkdir_cargo", "mkdir_sql",
             "control_create", "control_write",
             "cargo_toml_create", "cargo_toml_write",
             "config_create", "config_write",
             "lib_rs_create", "lib_rs_write",
             "gitignore_create", "gitignore_write">>

\* Cargo.toml written before the control file
PcOrderSwapped == <<"mkdir_src", "mkdir_cargo", "mkdir_sql",
                    "cargo_toml_create", "cargo_toml_write",
                    "control_create", "control_write",
                    "config_create", "config_write",
                    "lib_rs_create", "lib_rs_write",
                    "gitignore_create", "gitignore_write">>

IndexIn(order, s) == CHOOSE i \in 1..Len(order) : order[i] = s

NextIn(order, s) ==
    IF IndexIn(order, s) = Len(order) THEN "returned"
    ELSE order[IndexIn(order, s) + 1]

StepAfterSwapped(s) == NextIn(PcOrderSwapped, s)

\* the statement that follows s in create_crate_template
StepAfter(s) == NextIn(PcOrder, s)

\* an error that is dropped
TrySwallow(s, ok) == StepAfter(s)

\* the `?` operator: go on when the call succeeded, return its error otherwise
Try(s, ok) == IF ok THEN StepAfter(s) ELSE "returned"

\* an error return that removes what the run created
AbortCleanup(f, s) == s

\* an error return leaves the filesystem as the failed call left it;
\* s is the filesystem at the start of the run
Abort(f, s) == f

\* validation that does not stop the command
EntryIgnore(v) == "mkdir_src"

\* execute: `validate_extension_name(&self.name)?` before anything else
Entry(v) == IF v = "Ok" THEN "mkdir_src" ELSE "returned"

\* the sql directory forgotten
DirNameNoSql(s) ==
    CASE s = "mkdir_src" -> SrcDir
      [] s = "mkdir_cargo" -> CargoDir
      [] s = "mkdir_sql" -> CargoDir

\* the directory each create_dir_all of create_directory_structure makes
DirName(s) ==
    CASE s = "mkdir_src" -> SrcDir
      [] s = "mkdir_cargo" -> CargoDir
      [] s = "mkdir_sql" -> SqlDir

ControlPath(d, n) == Push(d, ControlName(n))
CargoTomlPath(d) == Push(d, CargoTomlName)
ConfigPath(d) == Push(Push(d, CargoDir), ConfigName)
LibRsPath(d) == Push(Push(d, SrcDir), LibRsName)
GitIgnorePath(d) == Push(d, GitIgnoreName)

ControlBytes(n) == Format(TemplateControl, n)
CargoTomlBytes(n) == Format(TemplateCargoToml, n)
ConfigBytes == TemplateCargoConfig
GitIgnoreBytes == TemplateGitignore

\* the flag ignored
LibRsBytesSame(n, b) == Format(TemplateLibRs, n)

LibRsBytes(n, b) ==
    IF b THEN Format(TemplateBgworkerLibRs, n) ELSE Format(TemplateLibRs, n)

(* ------------------------------ actions -------------------------------- *)

Returned(p, ok, c) ==
    LET to == Try(pc[p], ok)
        e == IF ok \/ err[p] # "none" THEN err[p] ELSE pc[p]
    IN  /\ pc' = [pc EXCEPT ![p] = to]
        /\ err' = [err EXCEPT ![p] = e]
        /\ cause' = [cause EXCEPT ![p] = IF ok \/ err[p] # "none" THEN @ ELSE c]
        /\ result' = [result EXCEPT ![p] =
                         IF to # "returned" THEN @
                         ELSE IF e = "none" THEN "Ok" ELSE "IoErr"]
        /\ UNCHANGED <<fs0, name, bgworker, path, start, rerun, calls, budget,
                       world, vname, verdict>>

execute(p) ==
    /\ pc[p] \in {"idle", "returned"}
    /\ calls[p] < budget[p]
    /\ \E n \in ExecNames, b \in BOOLEAN :
          LET to == Entry(validate_extension_name(n))
          IN  /\ name' = [name EXCEPT ![p] = n]
              /\ bgworker' = [bgworker EXCEPT ![p] = b]
              /\ path' = [path EXCEPT ![p] = DestPath(n)]
              /\ pc' = [pc EXCEPT ![p] = to]
              /\ result' = [result EXCEPT ![p] =
                               IF to = "returned" THEN "ValidationErr" ELSE "none"]
              /\ rerun' = [rerun EXCEPT ![p] =
                              result[p] = "Ok" /\ name[p] = n /\ bgworker[p] = b]
    /\ start' = [start EXCEPT ![p] = fs[world[p]]]
    /\ err' = [err EXCEPT ![p] = "none"]
    /\ cause' = [cause EXCEPT ![p] = "none"]
    /\ calls' = [calls EXCEPT ![p] = @ + 1]
    /\ UNCHANGED <<fs, fs0, budget, world, vname, verdict>>

create_directory_structure(p) ==
    /\ pc[p] \in {"mkdir_src", "mkdir_cargo", "mkdir_sql"}
    /\ LET w == world[p]
           f == fs[w]
           q == Push(path[p], DirName(pc[p]))
           d == Depth(f, q)
       IN  \/ /\ DirAllOk(f, q)
              /\ fs' = [fs EXCEPT ![w] = create_dir_all(f, q)]
              /\ Returned(p, TRUE, "none")
           \/ \E k \in d..(IF DirAllOk(f, q) /\ d < Len(q) THEN Len(q) - 1 ELSE d) :
                /\ fs' = [fs EXCEPT ![w] = Abort(MkdirUpTo(f, q, k), start[p])]
                /\ Returned(p, FALSE, IF DirAllOk(f, q) THEN "io" ELSE "conflict")

\* one file of the template: File::create(q), then write_all(b)
WriteFile(p, createPc, writePc, q, b) ==
    LET w == world[p]
        f == fs[w]
    IN  \/ /\ pc[p] = createPc
           /\ FileCreateOk(f, q)
           /\ fs' = [fs EXCEPT ![w] = File_create(f, q)]
           /\ Returned(p, TRUE, "none")
        \/ /\ pc[p] = createPc
           /\ fs' = [fs EXCEPT ![w] = Abort(f, start[p])]
           /\ Returned(p, FALSE, IF FileCreateOk(f, q) THEN "io" ELSE "conflict")
        \/ /\ pc[p] = writePc
           /\ fs' = [fs EXCEPT ![w] = write_all(f, q, b, Len(b))]
           /\ Returned(p, TRUE, "none")
        \/ /\ pc[p] = writePc
           /\ \E k \in 0..(Len(b) - 1) :
                fs' = [fs EXCEPT ![w] = Abort(write_all(f, q, b, k), start[p])]
           /\ Returned(p, FALSE, "io")

create_control_file(p) ==
    WriteFile(p, "control_create", "control_write",
              ControlPath(path[p], name[p]), ControlBytes(name[p]))

create_cargo_toml(p) ==
    WriteFile(p, "cargo_toml_create", "cargo_toml_write",
              CargoTomlPath(path[p]), CargoTomlBytes(name[p]))

create_dotcargo_config(p) ==
    WriteFile(p, "config_create", "config_write",
              ConfigPath(path[p]), ConfigBytes)

create_lib_rs(p) ==
    WriteFile(p, "lib_rs_create", "lib_rs_write",
              LibRsPath(path[p]), LibRsBytes(name[p], bgworker[p]))

create_git_ignore(p) ==
    WriteFile(p, "gitignore_create", "gitignore_write",
              GitIgnorePath(path[p]), GitIgnoreBytes)

\* the validator applied to a name on its own
Validate ==
    /\ verdict = "none"
    /\ verdict' = validate_extension_name(vname)
    /\ UNCHANGED <<fs, fs0, pc, name, bgworker, path, result, err, cause, start,
                   rerun, calls, budget, world, vname>>

(* ------------------------- what a run leaves --------------------------- *)

\* the six steps of create_crate_template
StepOfPc(s) ==
    CASE s \in {"mkdir_src", "mkdir_cargo", "mkdir_sql"} -> 1
      [] s \in {"control_create", "control_write"} -> 2
      [] s \in {"cargo_toml_create", "cargo_toml_write"} -> 3
      [] s \in {"config_create", "config_write"} -> 4
      [] s \in {"lib_rs_create", "lib_rs_write"} -> 5
      [] s \in {"gitignore_create", "gitignore_write"} -> 6

\* the paths step i creates below (or at) the destination d
StepPaths(i, d, n) ==
    CASE i = 1 -> {d, Push(d, SrcDir), Push(d, CargoDir), Push(d, SqlDir)}
      [] i = 2 -> {ControlPath(d, n)}
      [] i = 3 -> {CargoTomlPath(d)}
      [] i = 4 -> {ConfigPath(d)}
      [] i = 5 -> {LibRsPath(d)}
      [] i = 6 -> {GitIgnorePath(d)}

\* the files of the template in the order they are written
FileOrder(d, n) ==
    <<ControlPath(d, n), CargoTomlPath(d), ConfigPath(d), LibRsPath(d),
      GitIgnorePath(d)>>

TemplateDirs(d) == {Push(d, SrcDir), Push(d, CargoDir), Push(d, SqlDir)}

TemplateFiles(d, n) == {FileOrder(d, n)[i] : i \in 1..5}

\* what a completed step leaves at q
StepNode(q, d, n, b) ==
    CASE q = ControlPath(d, n) -> File(ControlBytes(n))
      [] q = CargoTomlPath(d) -> File(CargoTomlBytes(n))
      [] q = ConfigPath(d) -> File(ConfigBytes)
      [] q = LibRsPath(d) -> File(LibRsBytes(n, b))
      [] q = GitIgnorePath(d) -> File(GitIgnoreBytes)
      [] OTHER -> Dir

\* nothing below the destination d (d itself may exist or not)
EmptyDest(f, d) == Below(f, d) = {}

(* ------------------------------- claims -------------------------------- *)

UpperSpacePunct == {"A", " ", "-"}
LowerDigitUnderscore == {"a", "7", "_"}

\* C1: the validator returns an error for every name that has at least one
\* uppercase letter, space or punctuation character, whatever its other
\* characters are.
C1_RejectsUpperSpacePunct ==
    (verdict # "none" /\ \E i \in 1..Len(vname) : vname[i] \in UpperSpacePunct)
        => verdict = "Err"

\* C2: the validator returns Ok for every name made only of characters of
\* [a-z0-9_], the empty name included.
C2_ApprovesLowerDigitUnderscore ==
    (verdict # "none" /\ \A i \in 1..Len(vname) : vname[i] \in LowerDigitUnderscore)
        => verdict = "Ok"

C2_Witness ==
    verdict = "Ok" /\ vname = <<"a", "7", "_">>

\* C3: an invocation with a name the validator rejects returns the
\* validation error and leaves the filesystem as it found it.
C3_RejectedNameTouchesNothing ==
    \A p \in Procs :
        (calls[p] > 0 /\ validate_extension_name(name[p]) = "Err")
            => /\ pc[p] = "returned"
               /\ result[p] = "ValidationErr"
               /\ fs[world[p]] = start[p]

C3_Witness ==
    \E p \in Procs :
        /\ pc[p] = "returned"
        /\ name[p] = <<"a", "-">>
        /\ result[p] = "ValidationErr"

\* C4: once a step of create_crate_template has failed, the call has
\* returned an error and nothing a later step would create has been created
\* or changed; after a failed directory creation none of the five files is
\* written.
C4_FailFast ==
    \A p \in Procs :
        err[p] # "none"
            => /\ pc[p] = "returned"
               /\ result[p] = "IoErr"
               /\ \A i \in (StepOfPc(err[p]) + 1)..6 :
                    \A q \in StepPaths(i, path[p], name[p]) :
                        /\ q \in DOMAIN fs[world[p]] <=> q \in DOMAIN start[p]
                        /\ q \in DOMAIN start[p] => fs[world[p]][q] = start[p][q]

C4_Witness ==
    \E p \in Procs :
        /\ pc[p] = "returned"
        /\ err[p] = "mkdir_src"
        /\ cause[p] = "conflict"
        /\ start[p][path[p]].kind = "file"

\* C5: a run that returns Ok on an empty destination leaves exactly eight
\* entries below it: the directories src, .cargo and sql and the files
\* <name>.control, Cargo.toml, .cargo/config, src/lib.rs and .gitignore.
C5_ExactlyEightArtifacts ==
    \A p \in Procs :
        (pc[p] = "returned" /\ result[p] = "Ok" /\ EmptyDest(start[p], path[p]))
            => LET f == fs[world[p]]
                   d == path[p]
               IN  /\ Below(f, d) = TemplateDirs(d) \cup TemplateFiles(d, name[p])
                   /\ Cardinality(Below(f, d)) = 8
                   /\ \A q \in TemplateDirs(d) : f[q].kind = "dir"
                   /\ \A q \in TemplateFiles(d, name[p]) : f[q].kind = "file"

C5_Witness ==
    \E p \in Procs :
        /\ pc[p] = "returned"
        /\ result[p] = "Ok"
        /\ name[p] = <<"_", "7">>
        /\ EmptyDest(start[p], path[p])
        /\ Cardinality(Below(fs[world[p]], path[p])) = 8

\* C6: two successful runs with the same name from the same filesystem, one
\* with is_bgworker = false and one with is_bgworker = true, leave the same
\* directories and files, and the same content everywhere but in src/lib.rs,
\* whose content differs.
C6_VariantChangesLibRsOnly ==
    (/\ pc[1] = "returned" /\ pc[2] = "returned"
     /\ result[1] = "Ok" /\ result[2] = "Ok"
     /\ world[1] # world[2]
     /\ start[1] = start[2]
     /\ name[1] = name[2]
     /\ bgworker[1] # bgworker[2])
        => LET f1 == fs[world[1]]
               f2 == fs[world[2]]
           IN  /\ DOMAIN f1 = DOMAIN f2
               /\ \A q \in DOMAIN f1 : f1[q] # f2[q] <=> q = LibRsPath(path[1])

C6_Witness ==
    /\ pc[1] = "returned" /\ pc[2] = "returned"
    /\ result[1] = "Ok" /\ result[2] = "Ok"
    /\ world[1] # world[2]
    /\ name[1] = <<"a">> /\ name[2] = <<"a">>
    /\ ~bgworker[1] /\ bgworker[2]
    /\ fs[world[1]][LibRsPath(path[1])] # fs[world[2]][LibRsPath(path[2])]

\* C7: a run that repeats, with the same name and variant, the run that
\* has just succeeded never finds an entry in its way, and when it returns
\* Ok the filesystem is what the first run left.
C7_RerunIsIdempotent ==
    \A p \in Procs :
        rerun[p]
            => /\ cause[p] # "conflict"
               /\ (pc[p] = "returned" /\ result[p] = "Ok")
                      => fs[world[p]] = start[p]

C7_Witness ==
    \E p \in Procs :
        /\ rerun[p]
        /\ calls[p] = 2
        /\ pc[p] = "returned"
        /\ result[p] = "Ok"
        /\ fs[world[p]] = start[p]

\* what the steps before the failed one have left is still there
C8_EarlierStepsKept ==
    \A p \in Procs :
        (pc[p] = "returned" /\ err[p] # "none")
            => \A i \in 1..(StepOfPc(err[p]) - 1) :
                 \A q \in StepPaths(i, path[p], name[p]) :
                     /\ q \in DOMAIN fs[world[p]]
                     /\ fs[world[p]][q] = StepNode(q, path[p], name[p], bgworker[p])

\* no step removes an entry
C8_NothingRemoved ==
    \A w \in Worlds : DOMAIN fs[w] \subseteq DOMAIN fs'[w]

\* C8: there is no rollback: when create_crate_template fails, what the
\* earlier steps of the run created is still there with the content they
\* wrote, and no step of a run ever removes a directory or a file.
C8_NoRollback ==
    [](C8_EarlierStepsKept) /\ [][C8_NothingRemoved]_vars

C8_Witness ==
    \E p \in Procs :
        /\ pc[p] = "returned"
        /\ err[p] = "lib_rs_write"
        /\ EmptyDest(start[p], path[p])
        /\ ConfigPath(path[p]) \in DOMAIN fs[world[p]]

\* C9: in every state of a run that started on an empty destination the
\* files below the destination are the first k files of the order
\* <name>.control, Cargo.toml, .cargo/config, src/lib.rs, .gitignore, and
\* when there is a file the directories src, .cargo and sql exist.
C9_FilesInOrderAfterDirs ==
    \A p \in Procs :
        (calls[p] > 0 /\ EmptyDest(start[p], path[p]))
            => LET f == fs[world[p]]
                   d == path[p]
                   files == {q \in Below(f, d) : f[q].kind = "file"}
               IN  /\ \E k \in 0..5 : files = {FileOrder(d, name[p])[i] : i \in 1..k}
                   /\ files # {}
                        => \A q \in TemplateDirs(d) :
                             q \in DOMAIN f /\ f[q].kind = "dir"

C9_Witness ==
    \E p \in Procs :
        /\ pc[p] = "config_create"
        /\ EmptyDest(start[p], path[p])
        /\ CargoTomlPath(path[p]) \in DOMAIN fs[world[p]]
        /\ ConfigPath(path[p]) \notin DOMAIN fs[world[p]]

\* the path and the bytes of the system call s
TargetOf(s, d, n) ==
    CASE StepOfPc(s) = 1 -> Push(d, DirName(s))
      [] StepOfPc(s) = 2 -> ControlPath(d, n)
      [] StepOfPc(s) = 3 -> CargoTomlPath(d)
      [] StepOfPc(s) = 4 -> ConfigPath(d)
      [] StepOfPc(s) = 5 -> LibRsPath(d)
      [] StepOfPc(s) = 6 -> GitIgnorePath(d)

IsCreate(s) ==
    s \in {"control_create", "cargo_toml_create", "config_create",
           "lib_rs_create", "gitignore_create"}

\* create_crate_template run from system call i on, with no other activity
\* and no failure but an entry in the way
RECURSIVE RunAlone(_, _, _, _, _)
RunAlone(f, i, d, n, b) ==
    IF i > Len(PcOrder) THEN [fs |-> f, result |-> "Ok"]
    ELSE LET s == PcOrder[i]
             q == TargetOf(s, d, n)
         IN  IF StepOfPc(s) = 1
             THEN IF DirAllOk(f, q)
                  THEN RunAlone(create_dir_all(f, q), i + 1, d, n, b)
                  ELSE [fs |-> f, result |-> "IoErr"]
             ELSE IF IsCreate(s)
             THEN IF FileCreateOk(f, q)
                  THEN RunAlone(File_create(f, q), i + 1, d, n, b)
                  ELSE [fs |-> f, result |-> "IoErr"]
             ELSE LET bytes == StepNode(q, d, n, b).bytes
                  IN  RunAlone(write_all(f, q, bytes, Len(bytes)), i + 1, d, n, b)

Alone(p) == RunAlone(fs0[world[p]], 1, path[p], name[p], bgworker[p])

Approved(n) == validate_extension_name(n) = "Ok"

\* both invocations are over, with different approved names, and no system
\* call failed for a reason of the environment
ConcurrentPairDone ==
    /\ pc[1] = "returned" /\ pc[2] = "returned"
    /\ world[1] = world[2]
    /\ name[1] # name[2]
    /\ Approved(name[1]) /\ Approved(name[2])
    /\ cause[1] # "io" /\ cause[2] # "io"

C10_SameAsAlone ==
    ConcurrentPairDone
        => \A p \in Procs :
             /\ result[p] = Alone(p).result
             /\ Subtree(fs[world[p]], path[p]) = Subtree(Alone(p).fs, path[p])

\* invocation p has made the step
Stepped(p) == pc'[p] # pc[p] \/ calls'[p] # calls[p]

C10_StepsStayInOwnTree ==
    \A p, q \in Procs :
        (/\ p # q /\ Stepped(p) /\ world[p] = world[q]
         /\ calls'[p] > 0 /\ calls[q] > 0
         /\ name'[p] # name[q] /\ Approved(name'[p]) /\ Approved(name[q]))
            => Subtree(fs'[world[q]], path[q]) = Subtree(fs[world[q]], path[q])

\* C10: two invocations with different approved names whose system calls
\* interleave do not interact: with no failure of the environment each
\* ends as it would alone, with the destination tree it would leave alone,
\* and no step of one changes anything below the destination of the other.
C10_NoInterference ==
    [](C10_SameAsAlone) /\ [][C10_StepsStayInOwnTree]_vars

\* the same, for names that are not empty
C10_SameAsAloneNonEmpty ==
    (ConcurrentPairDone /\ name[1] # <<>> /\ name[2] # <<>>)
        => \A p \in Procs :
             /\ result[p] = Alone(p).result
             /\ Subtree(fs[world[p]], path[p]) = Subtree(Alone(p).fs, path[p])

(* --------------------------- specifications ---------------------------- *)

A == Push(CWD, <<"a">>)

Tree(dirs, files) ==
    [q \in dirs \cup files |-> IF q \in dirs THEN Dir ELSE File(<<"old">>)]

\* the filesystem before the first invocation: nothing but the working
\* directory; a regular file named a; a directory where a/Cargo.toml is to
\* be written; an a/.gitignore left by somebody else
InitTrees ==
    { Tree({<<>>, CWD}, {}),
      Tree({<<>>, CWD}, {A}),
      Tree({<<>>, CWD, A, CargoTomlPath(A)}, {}),
      Tree({<<>>, CWD, A}, {GitIgnorePath(A)}) }

InitWith(trees, wmap, budg, vnames) ==
    /\ \E t \in trees : fs = [w \in Worlds |-> t]
    /\ fs0 = fs
    /\ pc = [p \in Procs |-> "idle"]
    /\ name = [p \in Procs |-> <<>>]
    /\ bgworker = [p \in Procs |-> FALSE]
    /\ path = [p \in Procs |-> CWD]
    /\ result = [p \in Procs |-> "none"]
    /\ err = [p \in Procs |-> "none"]
    /\ cause = [p \in Procs |-> "none"]
    /\ start = [p \in Procs |-> fs[1]]
    /\ rerun = [p \in Procs |-> FALSE]
    /\ calls = [p \in Procs |-> 0]
    /\ budget = budg
    /\ world = wmap
    /\ vname \in vnames
    /\ verdict = "none"

\* one user, one filesystem, successive invocations
Init ==
    InitWith(InitTrees, [p \in Procs |-> 1],
             [p \in Procs |-> IF p = 1 THEN MaxCalls ELSE 0], {<<>>})

\* two invocations, each on a filesystem of its own
InitPair ==
    InitWith(InitTrees, [p \in Procs |-> p], [p \in Procs |-> 1], {<<>>})

\* two invocations whose system calls interleave on one filesystem
InitConc ==
    InitWith({Tree({<<>>, CWD}, {}), Tree({<<>>, CWD}, {A})},
             [p \in Procs |-> 1], [p \in Procs |-> 1], {<<>>})

\* the validator on its own, on every name of at most MaxLen characters
InitValidate ==
    InitWith({Tree({<<>>, CWD}, {})}, [p \in Procs |-> 1],
             [p \in Procs |-> 0], Names)

Step(p) ==
    \/ execute(p)
    \/ create_directory_structure(p)
    \/ create_control_file(p)
    \/ create_cargo_toml(p)
    \/ create_dotcargo_config(p)
    \/ create_lib_rs(p)
    \/ create_git_ignore(p)

Next == \E p \in Procs : Step(p)

Spec == Init /\ [][Next]_vars
SpecPair == InitPair /\ [][Next]_vars
SpecConc == InitConc /\ [][Next]_vars
SpecValidate == InitValidate /\ [][Validate]_vars

=============================================================================
